---- MODULE Spec2Model ----
(***************************************************************************)
(* Model of src/vercon.mjs: the Clamp content-addressable version-control  *)
(* engine.  The repository on disk (.clamp/objects, .clamp/HEAD,           *)
(* .clamp/index) is the shared state.  Every command invocation is a       *)
(* process that runs two asynchronous chains: the constructor's            *)
(* un-awaited init() and the command's own method.  Each fs call is one    *)
(* atomic step.                                                            *)
(***************************************************************************)
EXTENDS Integers, Sequences, FiniteSets, TLC

\* ---------------------------------------------------------------- bounds
MaxAdds == 3
MaxCommits == 2
\* The entries staged and commits stored before a concurrent command starts.
ConcOps == 2
\* The entries staged in the runs that check termination.
FairAdds == 1

\* The slots for command invocations: at most two run at the same time.
Procs == {1, 2}
Paths == {"a.txt", "b.txt"}
Messages == {"m"}

\* The times the clock shows while the commands run.
Times == {1}

\* ---------------------------------------------------------------- values
\* JavaScript null and undefined, and the error of a failed fs call.
null == [null |-> TRUE]
undefined == [undefined |-> TRUE]
ENOENT == [enoent |-> TRUE]
SyntaxError == [error |-> "SyntaxError"]
TypeError == [error |-> "TypeError"]
Threw(r) == r \in {ENOENT, SyntaxError, TypeError}

\* A console.log line with a fixed text.
Msg(s) == [msg |-> s]

\* A plain text (a string that is not JSON); "" is the empty text.
Text(s) == [text |-> s]
EmptyString == Text("")

\* Contents a working-tree file can have when add reads it: a.txt is edited
\* between two versions, b.txt has the first of them.
Contents(f) == IF f = "a.txt" THEN {Text("x"), Text("y")} ELSE {Text("x")}

\* JavaScript truthiness of the values the program tests.
Truthy(v) == v \notin {null, undefined, EmptyString}

\* JSON.stringify: the text that serialises v.
JSONstringify(v) == [json |-> v]

\* JSON.parse: null is coerced to the text "null" and parses to null; a text
\* that is not JSON throws SyntaxError.
JSONthrows(s) == s # null /\ "json" \notin DOMAIN s

JSONparse(s) ==
  IF s = null THEN null
  ELSE IF JSONthrows(s) THEN SyntaxError
  ELSE s.json

\* crypto sha1 hex digest of a content: deterministic and collision-free.
hashObject(content) == [sha1 |-> content]

\* A digest under which no object is ever stored (a mistyped argument).
UnknownHash == hashObject(Text("unknown"))

\* ---------------------------------------------------------------- state
VARIABLES
  objectsDir,   \* does .clamp/objects exist
  objects,      \* the files of .clamp/objects: digest -> content
  headPath,     \* content of .clamp/HEAD, or ENOENT
  indexPath,    \* content of .clamp/index, or ENOENT
  proc,         \* the command invocations
  created,      \* history: digests of the commit records, in order of storing
  prev          \* history: the last add or commit that completed

vars == <<objectsDir, objects, headPath, indexPath, proc, created, prev>>
fs == <<objectsDir, objects, headPath, indexPath>>

\* The repository state as seen at one moment.
Snapshot == [objectsDir |-> objectsDir, objects |-> objects,
             headPath |-> headPath, indexPath |-> indexPath]

NoSnapshot == [objectsDir |-> FALSE, objects |-> <<>>,
               headPath |-> ENOENT, indexPath |-> ENOENT]

\* A process slot with no invocation running.
Idle == [cmd |-> "idle", initPc |-> "done", opPc |-> "done",
         already |-> FALSE, readErr |-> FALSE, at |-> "",
         path |-> "", message |-> "", commitHash |-> null,
         fileData |-> null, fileHash |-> null, index |-> <<>>,
         parentCommit |-> null, commitData |-> null,
         currentCommitHash |-> null, i |-> 0, out |-> <<>>,
         pre |-> NoSnapshot]

NoPrev == [cmd |-> "none", proc |-> Idle]

Init ==
  /\ objectsDir = FALSE
  /\ objects = <<>>
  /\ headPath = ENOENT
  /\ indexPath = ENOENT
  /\ proc = [p \in Procs |-> Idle]
  /\ created = <<>>
  /\ prev = NoPrev

\* ---------------------------------------------------------------- fs
\* fs.writeFile(path.join(objectsPath, key), content): fails when the
\* directory does not exist, otherwise creates or overwrites the file.
PutObject(store, key, content) ==
  [d \in DOMAIN store \cup {key} |-> IF d = key THEN content ELSE store[d]]

\* fs.readFile(path.join(objectsPath, key)): the content, or ENOENT.
ReadObject(key) ==
  IF objectsDir /\ key \in DOMAIN objects THEN objects[key] ELSE ENOENT

\* ---------------------------------------------------------------- helpers
Set(p, r) == proc' = [proc EXCEPT ![p] = r]
Fail(p) == Set(p, [proc[p] EXCEPT !.opPc = "failed", !.at = proc[p].opPc])
Running(p) == proc[p].cmd # "idle"

Commands == {"init", "add", "commit", "log", "show", "tree"}

\* The first program counter of each command's method.
FirstPc(cmd) ==
  CASE cmd = "init" -> "done"
    [] cmd = "add" -> "add_read"
    [] cmd = "commit" -> "commit_read"
    [] cmd = "log" -> "log_head"
    [] cmd = "show" -> "show_get"
    [] cmd = "tree" -> "tree_head"

\* The number of entries staged so far: those of the first k commit records
\* and those in the index.  It bounds the entries of a run.
RECURSIVE Staged(_)
Staged(k) ==
  IF k = 0
    THEN IF indexPath = ENOENT THEN 0 ELSE Len(JSONparse(indexPath))
    ELSE Len(JSONparse(objects[created[k]]).files) + Staged(k - 1)

\* ---------------------------------------------------------------- commands
\* program.command(...).action: new Clamp() starts init() without awaiting
\* it, then the command's method is called.  With concurrent = FALSE a
\* command starts only when no other invocation is running (and, the slots
\* being interchangeable, in the first one).  With concurrent = TRUE the
\* commands of two terminals start together: a command starts when the other
\* slots are idle or hold an invocation that has not taken a step (a start
\* changes nothing on disk, so the steps interleave as they would with a
\* later start).  The concurrent
\* invocations add the file whose content changes, and the history kept of
\* one is the index it started from.
Start(p, cmd, concurrent) ==
  /\ proc[p].cmd = "idle"
  /\ IF concurrent
       THEN \A q \in Procs \ {p} :
              IF proc[q].cmd = "idle" THEN p < q
              ELSE proc[q].opPc = FirstPc(proc[q].cmd) /\ proc[q].initPc = "mkdir"
       ELSE p = 1 /\ \A q \in Procs : proc[q].cmd = "idle"
  /\ concurrent => Staged(Len(created)) + Len(created) < ConcOps
  /\ (~concurrent /\ cmd = "add") => Staged(Len(created)) < MaxAdds
  /\ (~concurrent /\ cmd = "commit") => Len(created) < MaxCommits
  /\ \E f \in IF cmd # "add" THEN {""}
              ELSE IF concurrent THEN {"a.txt"} ELSE Paths,
        m \in IF cmd = "commit" THEN Messages ELSE {""},
        h \in IF cmd = "show" THEN DOMAIN objects \cup {UnknownHash} ELSE {null} :
       Set(p, [Idle EXCEPT !.cmd = cmd, !.initPc = "mkdir",
                           !.opPc = FirstPc(cmd),
                           !.path = f, !.message = m, !.commitHash = h,
                           !.pre = IF concurrent
                                     THEN [NoSnapshot EXCEPT
                                             !.indexPath = indexPath]
                                     ELSE Snapshot])
  /\ UNCHANGED <<fs, created, prev>>

\* init, line 23: fs.mkdir(objectsPath, {recursive: true}).
InitMkdir(p) ==
  /\ Running(p) /\ proc[p].initPc = "mkdir"
  /\ objectsDir' = TRUE
  /\ Set(p, [proc[p] EXCEPT !.initPc = "writeHead"])
  /\ UNCHANGED <<objects, headPath, indexPath, created, prev>>

\* Mutant of InitWriteHead: HEAD is written without the "wx" flag.
InitWriteHeadNoWx(p) ==
  /\ Running(p) /\ proc[p].initPc = "writeHead"
  /\ headPath' = EmptyString
  /\ Set(p, [proc[p] EXCEPT !.initPc = "writeIndex"])
  /\ UNCHANGED <<objectsDir, objects, indexPath, created, prev>>

\* init, line 25: fs.writeFile(headPath, "", {flag: "wx"}); an existing HEAD
\* makes it throw, and the catch reports "Already initialized".
InitWriteHead(p) ==
  /\ Running(p) /\ proc[p].initPc = "writeHead"
  /\ IF headPath = ENOENT
       THEN /\ headPath' = EmptyString
            /\ Set(p, [proc[p] EXCEPT !.initPc = "writeIndex"])
       ELSE /\ headPath' = headPath
            /\ Set(p, [proc[p] EXCEPT !.initPc = "done", !.already = TRUE])
  /\ UNCHANGED <<objectsDir, objects, indexPath, created, prev>>

\* init, line 26: fs.writeFile(indexPath, "[]", {flag: "wx"}).
InitWriteIndex(p) ==
  /\ Running(p) /\ proc[p].initPc = "writeIndex"
  /\ IF indexPath = ENOENT
       THEN /\ indexPath' = JSONstringify(<<>>)
            /\ Set(p, [proc[p] EXCEPT !.initPc = "done"])
       ELSE /\ indexPath' = indexPath
            /\ Set(p, [proc[p] EXCEPT !.initPc = "done", !.already = TRUE])
  /\ UNCHANGED <<objectsDir, objects, headPath, created, prev>>

\* Mutant of AddRead: a file that cannot be read is taken as an empty one
\* and the add goes on.
AddReadUnreadableAsEmpty(p) ==
  /\ proc[p].opPc = "add_read"
  /\ \E c \in Contents(proc[p].path) \cup {ENOENT} :
       LET d == IF c = ENOENT THEN EmptyString ELSE c
       IN Set(p, [proc[p] EXCEPT !.fileData = d,
                                 !.fileHash = hashObject(d),
                                 !.readErr = (c = ENOENT),
                                 !.out = Append(@, [printed |-> hashObject(d)]),
                                 !.opPc = "add_write"])
  /\ UNCHANGED <<fs, created, prev>>

\* add, lines 45-47: read the working-tree file (whatever it holds now, or
\* unreadable), hash it and print the digest.
AddRead(p) ==
  /\ proc[p].opPc = "add_read"
  /\ \E c \in Contents(proc[p].path) \cup {ENOENT} :
       IF c = ENOENT
         THEN Set(p, [proc[p] EXCEPT !.opPc = "failed", !.at = "add_read",
                                     !.readErr = TRUE])
         ELSE Set(p, [proc[p] EXCEPT !.fileData = c,
                                     !.fileHash = hashObject(c),
                                     !.out = Append(@, [printed |-> hashObject(c)]),
                                     !.opPc = "add_write"])
  /\ UNCHANGED <<fs, created, prev>>

\* Mutant of AddWrite: the blob is stored under a name made from the path
\* instead of the digest of its content.
AddWriteByPath(p) ==
  /\ proc[p].opPc = "add_write"
  /\ IF objectsDir
       THEN /\ objects' = PutObject(objects, hashObject(Text(proc[p].path)),
                                    proc[p].fileData)
            /\ Set(p, [proc[p] EXCEPT !.opPc = "usa_read"])
       ELSE /\ objects' = objects
            /\ Fail(p)
  /\ UNCHANGED <<objectsDir, headPath, indexPath, created, prev>>

\* add, lines 48-49: write the blob under its digest.
AddWrite(p) ==
  /\ proc[p].opPc = "add_write"
  /\ IF objectsDir
       THEN /\ objects' = PutObject(objects, proc[p].fileHash, proc[p].fileData)
            /\ Set(p, [proc[p] EXCEPT !.opPc = "usa_read"])
       ELSE /\ objects' = objects
            /\ Fail(p)
  /\ UNCHANGED <<objectsDir, headPath, indexPath, created, prev>>

\* Mutant of UpdateStagingAreaRead: an entry that is already in the index
\* is not pushed again.
UpdateStagingAreaReadDedup(p) ==
  /\ proc[p].opPc = "usa_read"
  /\ IF indexPath = ENOENT \/ JSONthrows(indexPath)
       THEN Fail(p)
       ELSE LET index == JSONparse(indexPath)
                entry == [path |-> proc[p].path, hash |-> proc[p].fileHash]
            IN Set(p, [proc[p] EXCEPT
                 !.index = IF \E k \in 1..Len(index) : index[k] = entry
                             THEN index ELSE Append(index, entry),
                 !.opPc = "usa_write"])
  /\ UNCHANGED <<fs, created, prev>>

\* Mutant of UpdateStagingAreaRead: the index holds one entry per path, the
\* new entry replaces the one of its path.
UpdateStagingAreaReadReplace(p) ==
  /\ proc[p].opPc = "usa_read"
  /\ IF indexPath = ENOENT \/ JSONthrows(indexPath)
       THEN Fail(p)
       ELSE LET OtherPath(entry) == entry.path # proc[p].path
            IN Set(p, [proc[p] EXCEPT
                 !.index = Append(SelectSeq(JSONparse(indexPath), OtherPath),
                                  [path |-> proc[p].path,
                                   hash |-> proc[p].fileHash]),
                 !.opPc = "usa_write"])
  /\ UNCHANGED <<fs, created, prev>>

\* updateStagingArea, lines 37-40: read and parse the whole index, push.
UpdateStagingAreaRead(p) ==
  /\ proc[p].opPc = "usa_read"
  /\ IF indexPath = ENOENT \/ JSONthrows(indexPath)
       THEN Fail(p)
       ELSE Set(p, [proc[p] EXCEPT
              !.index = Append(JSONparse(indexPath),
                               [path |-> proc[p].path, hash |-> proc[p].fileHash]),
              !.opPc = "usa_write"])
  /\ UNCHANGED <<fs, created, prev>>

\* Mutant of UpdateStagingAreaWrite: the entry is appended to the index as
\* it is at the time of the write (an atomic append).
UpdateStagingAreaWriteAtomic(p) ==
  /\ proc[p].opPc = "usa_write"
  /\ indexPath' = JSONstringify(Append(IF indexPath = ENOENT THEN <<>>
                                       ELSE JSONparse(indexPath),
                                       [path |-> proc[p].path,
                                        hash |-> proc[p].fileHash]))
  /\ Set(p, [proc[p] EXCEPT !.opPc = "done", !.out = Append(@, Msg("Added"))])
  /\ UNCHANGED <<objectsDir, objects, headPath, created, prev>>

\* updateStagingArea, line 41, and add, line 51: persist the whole index.
UpdateStagingAreaWrite(p) ==
  /\ proc[p].opPc = "usa_write"
  /\ indexPath' = JSONstringify(proc[p].index)
  /\ Set(p, [proc[p] EXCEPT !.opPc = "done", !.out = Append(@, Msg("Added"))])
  /\ UNCHANGED <<objectsDir, objects, headPath, created, prev>>

\* Mutant of getCurrentHead: an empty HEAD is turned into null.
getCurrentHeadOrNull ==
  IF headPath \in {ENOENT, EmptyString} THEN null ELSE headPath

\* getCurrentHead, lines 74-80: the content of HEAD, or null when unreadable.
getCurrentHead == IF headPath = ENOENT THEN null ELSE headPath

\* Mutant of CommitRead: the index is persisted as empty as soon as it has
\* been read.
CommitReadAndClear(p) ==
  /\ proc[p].opPc = "commit_read"
  /\ IF indexPath = ENOENT \/ JSONthrows(indexPath)
       THEN /\ indexPath' = indexPath
            /\ Fail(p)
       ELSE /\ indexPath' = JSONstringify(<<>>)
            /\ Set(p, [proc[p] EXCEPT !.index = JSONparse(indexPath),
                                      !.opPc = "commit_head"])
  /\ UNCHANGED <<objectsDir, objects, headPath, created, prev>>

\* commit, lines 55-57: read and parse the index.
CommitRead(p) ==
  /\ proc[p].opPc = "commit_read"
  /\ IF indexPath = ENOENT \/ JSONthrows(indexPath)
       THEN Fail(p)
       ELSE Set(p, [proc[p] EXCEPT !.index = JSONparse(indexPath),
                                   !.opPc = "commit_head"])
  /\ UNCHANGED <<fs, created, prev>>

\* new Date(), line 60: the clock does not run backwards, so the time is not
\* before the time of the last commit record stored.
Now ==
  IF created = <<>> THEN 1
  ELSE JSONparse(objects[created[Len(created)]]).timeStamp

\* Mutant of CommitHead: the record is built without the parent that was
\* read.
CommitHeadNoParent(p) ==
  /\ proc[p].opPc = "commit_head"
  /\ \E t \in {u \in Times : u >= Now} :
       LET commitData == [timeStamp |-> t, message |-> proc[p].message,
                          files |-> proc[p].index, parent |-> EmptyString]
       IN Set(p, [proc[p] EXCEPT
            !.parentCommit = getCurrentHead,
            !.commitData = commitData,
            !.commitHash = hashObject(JSONstringify(commitData)),
            !.opPc = "commit_write"])
  /\ UNCHANGED <<fs, created, prev>>

\* commit, lines 58-66: read HEAD as the parent, build the record with the
\* clock's time and hash its serialisation.
CommitHead(p) ==
  /\ proc[p].opPc = "commit_head"
  /\ \E t \in {u \in Times : u >= Now} :
       LET commitData == [timeStamp |-> t, message |-> proc[p].message,
                          files |-> proc[p].index, parent |-> getCurrentHead]
       IN Set(p, [proc[p] EXCEPT
            !.parentCommit = getCurrentHead,
            !.commitData = commitData,
            !.commitHash = hashObject(JSONstringify(commitData)),
            !.opPc = "commit_write"])
  /\ UNCHANGED <<fs, created, prev>>

\* Mutant of CommitWrite: the record is not stored and commit goes on.
CommitWriteSkipped(p) ==
  /\ proc[p].opPc = "commit_write"
  /\ Set(p, [proc[p] EXCEPT !.opPc = "commit_sethead"])
  /\ UNCHANGED <<fs, created, prev>>

\* commit, lines 67-68: store the serialised record under its digest.
CommitWrite(p) ==
  /\ proc[p].opPc = "commit_write"
  /\ IF objectsDir
       THEN /\ objects' = PutObject(objects, proc[p].commitHash,
                                    JSONstringify(proc[p].commitData))
            /\ created' = Append(created, proc[p].commitHash)
            /\ Set(p, [proc[p] EXCEPT !.opPc = "commit_sethead"])
       ELSE /\ UNCHANGED <<objects, created>>
            /\ Fail(p)
  /\ UNCHANGED <<objectsDir, headPath, indexPath, prev>>

\* Mutant of CommitSetHead: HEAD is left where it was.
CommitSetHeadStale(p) ==
  /\ proc[p].opPc = "commit_sethead"
  /\ headPath' = headPath
  /\ Set(p, [proc[p] EXCEPT !.opPc = "commit_clear"])
  /\ UNCHANGED <<objectsDir, objects, indexPath, created, prev>>

\* commit, line 69: advance HEAD.
CommitSetHead(p) ==
  /\ proc[p].opPc = "commit_sethead"
  /\ headPath' = proc[p].commitHash
  /\ Set(p, [proc[p] EXCEPT !.opPc = "commit_clear"])
  /\ UNCHANGED <<objectsDir, objects, indexPath, created, prev>>

\* Mutant of CommitClear: the index is not reset.
CommitClearKeepsIndex(p) ==
  /\ proc[p].opPc = "commit_clear"
  /\ indexPath' = indexPath
  /\ Set(p, [proc[p] EXCEPT !.opPc = "done",
                            !.out = Append(@, [created |-> proc[p].commitHash])])
  /\ UNCHANGED <<objectsDir, objects, headPath, created, prev>>

\* commit, lines 70-71: persist the empty index and report.
CommitClear(p) ==
  /\ proc[p].opPc = "commit_clear"
  /\ indexPath' = JSONstringify(<<>>)
  /\ Set(p, [proc[p] EXCEPT !.opPc = "done",
                            !.out = Append(@, [created |-> proc[p].commitHash])])
  /\ UNCHANGED <<objectsDir, objects, headPath, created, prev>>

\* log, line 83: start the walk at HEAD.
LogHead(p) ==
  /\ proc[p].opPc = "log_head"
  /\ Set(p, [proc[p] EXCEPT !.currentCommitHash = getCurrentHead,
                            !.opPc = "log_loop"])
  /\ UNCHANGED <<fs, created, prev>>

\* Mutant of LogLoop: the walk does not follow the parent.
LogLoopOnce(p) ==
  /\ proc[p].opPc = "log_loop"
  /\ LET cur == proc[p].currentCommitHash
         raw == ReadObject(cur)
     IN IF ~Truthy(cur)
          THEN Set(p, [proc[p] EXCEPT !.opPc = "done"])
          ELSE IF raw = ENOENT \/ JSONthrows(raw)
            THEN Fail(p)
            ELSE LET commitData == JSONparse(raw)
                 IN Set(p, [proc[p] EXCEPT
                      !.out = Append(@, [commit |-> cur,
                                         date |-> commitData.timeStamp,
                                         message |-> commitData.message]),
                      !.currentCommitHash = null])
  /\ UNCHANGED <<fs, created, prev>>

\* log, lines 84-95: one turn of the while loop; it ends on a falsy hash.
LogLoop(p) ==
  /\ proc[p].opPc = "log_loop"
  /\ LET cur == proc[p].currentCommitHash
         raw == ReadObject(cur)
     IN IF ~Truthy(cur)
          THEN Set(p, [proc[p] EXCEPT !.opPc = "done"])
          ELSE IF raw = ENOENT \/ JSONthrows(raw)
            THEN Fail(p)
            ELSE LET commitData == JSONparse(raw)
                 IN Set(p, [proc[p] EXCEPT
                      !.out = Append(@, [commit |-> cur,
                                         date |-> commitData.timeStamp,
                                         message |-> commitData.message]),
                      !.currentCommitHash = commitData.parent])
  /\ UNCHANGED <<fs, created, prev>>

\* Mutant of getCommitData: the failed read is not caught.
getCommitDataNoCatch(commitHash) == ReadObject(commitHash)

\* getCommitData, lines 150-158: the object's text, or null when the read
\* fails.
getCommitData(commitHash) ==
  IF ReadObject(commitHash) = ENOENT THEN null ELSE ReadObject(commitHash)

\* getFileContent, lines 160-163: the object's text; ENOENT is thrown.
getFileContent(fileHash) == ReadObject(fileHash)

\* Mutant of FindFile: the last entry with this path.
FindLastFile(files, filepath) ==
  LET hits == {j \in 1..Len(files) : files[j].path = filepath}
  IN IF hits = {} THEN undefined
     ELSE files[CHOOSE j \in hits : \A k \in hits : j >= k]

\* Array.prototype.find on files: the first entry with this path.
FindFile(files, filepath) ==
  LET hits == {j \in 1..Len(files) : files[j].path = filepath}
  IN IF hits = {} THEN undefined
     ELSE files[CHOOSE j \in hits : \A k \in hits : j <= k]

\* getParentFileContent, lines 141-148.
getParentFileContent(parentCommitData, filepath) ==
  LET parentFile == FindFile(parentCommitData.files, filepath)
  IN IF parentFile # undefined THEN getFileContent(parentFile.hash)
     ELSE undefined

\* showCommitDiff, lines 107-137: the body of the for loop for one entry;
\* the value is what is printed, or the error thrown.
ShowFile(commitData, file) ==
  LET fileContent == getFileContent(file.hash)
  IN IF fileContent = ENOENT THEN ENOENT
     ELSE IF Truthy(commitData.parent)
       THEN LET raw == getCommitData(commitData.parent)
            IN IF JSONthrows(raw) THEN SyntaxError
               ELSE IF JSONparse(raw) = null THEN TypeError
               ELSE LET before == getParentFileContent(JSONparse(raw), file.path)
                    IN IF before = ENOENT THEN ENOENT
                       ELSE IF before # undefined
                         THEN [file |-> file.path, content |-> fileContent,
                               report |-> "Diff",
                               before |-> before, after |-> fileContent]
                         ELSE [file |-> file.path, content |-> fileContent,
                               report |-> "New file in this commit",
                               before |-> undefined, after |-> undefined]
       ELSE [file |-> file.path, content |-> fileContent,
             report |-> "First commit, no parent",
             before |-> undefined, after |-> undefined]

\* Mutant of ShowGet: showing a commit also makes it the HEAD.
ShowGetCheckout(p) ==
  /\ proc[p].opPc = "show_get"
  /\ LET raw == getCommitData(proc[p].commitHash)
     IN IF JSONthrows(raw)
          THEN /\ headPath' = headPath
               /\ Fail(p)
          ELSE IF JSONparse(raw) = null
            THEN /\ headPath' = headPath
                 /\ Set(p, [proc[p] EXCEPT
                      !.out = Append(@, Msg("Commit not found")),
                      !.opPc = "done"])
            ELSE /\ headPath' = proc[p].commitHash
                 /\ Set(p, [proc[p] EXCEPT
                      !.commitData = JSONparse(raw),
                      !.i = 1,
                      !.opPc = IF Len(JSONparse(raw).files) = 0
                                 THEN "done" ELSE "show_loop"])
  /\ UNCHANGED <<objectsDir, objects, indexPath, created, prev>>

\* showCommitDiff, lines 99-104: resolve the commit.
ShowGet(p) ==
  /\ proc[p].opPc = "show_get"
  /\ LET raw == getCommitData(proc[p].commitHash)
     IN IF JSONthrows(raw)
          THEN Fail(p)
          ELSE IF JSONparse(raw) = null
            THEN Set(p, [proc[p] EXCEPT !.out = Append(@, Msg("Commit not found")),
                                        !.opPc = "done"])
            ELSE Set(p, [proc[p] EXCEPT
                   !.commitData = JSONparse(raw),
                   !.i = 1,
                   !.opPc = IF Len(JSONparse(raw).files) = 0
                              THEN "done" ELSE "show_loop"])
  /\ UNCHANGED <<fs, created, prev>>

\* showCommitDiff, lines 106-138: one turn of the for loop.
ShowLoop(p) ==
  /\ proc[p].opPc = "show_loop"
  /\ LET files == proc[p].commitData.files
         r == ShowFile(proc[p].commitData, files[proc[p].i])
     IN IF Threw(r)
          THEN Fail(p)
          ELSE Set(p, [proc[p] EXCEPT
                 !.out = Append(@, r),
                 !.i = @ + 1,
                 !.opPc = IF proc[p].i = Len(files) THEN "done" ELSE "show_loop"])
  /\ UNCHANGED <<fs, created, prev>>

\* A text is held as the list of its lines (the text split at "\n"); a line
\* is an indentation, counted in units of two spaces, and a label.
Line(indent, label) == [indent |-> indent, label |-> label]

\* String concatenation on split texts: the last line of s continues with
\* the first line of t.
Concat(s, t) ==
  SubSeq(s, 1, Len(s) - 1)
    \o <<Line(s[Len(s)].indent + t[1].indent, t[1].label)>>
    \o Tail(t)

\* .split("\n").map((line) => `  ${line}`).join("\n")
IndentLines(t) == [k \in 1..Len(t) |-> Line(t[k].indent + 1, t[k].label)]

\* buildTree, lines 172-186: ok is FALSE when a read or parse throws.  (The
\* parent's text is bound as the element of a one-element set, so that it is
\* computed once.)
RECURSIVE buildTree(_)
buildTree(commitHash) ==
  LET raw == ReadObject(commitHash)
      tree == <<Line(0, commitHash), Line(0, EmptyString)>>
  IN IF raw = ENOENT \/ JSONthrows(raw)
       THEN [ok |-> FALSE, tree |-> <<>>]
       ELSE IF Truthy(JSONparse(raw).parent)
         THEN CHOOSE r \in
                { IF sub.ok
                    THEN [ok |-> TRUE, tree |-> Concat(tree, IndentLines(sub.tree))]
                    ELSE sub : sub \in {buildTree(JSONparse(raw).parent)} } : TRUE
         ELSE [ok |-> TRUE, tree |-> tree]

\* Mutant of TreeHead: the case of no commit is not detected.
TreeHeadNoCheck(p) ==
  /\ proc[p].opPc = "tree_head"
  /\ Set(p, [proc[p] EXCEPT !.currentCommitHash = getCurrentHead,
                            !.opPc = "tree_build"])
  /\ UNCHANGED <<fs, created, prev>>

\* generateCommitTree, lines 166-170: read HEAD.
TreeHead(p) ==
  /\ proc[p].opPc = "tree_head"
  /\ IF Truthy(getCurrentHead)
       THEN Set(p, [proc[p] EXCEPT !.currentCommitHash = getCurrentHead,
                                   !.opPc = "tree_build"])
       ELSE Set(p, [proc[p] EXCEPT !.out = Append(@, Msg("No commits found")),
                                   !.opPc = "done"])
  /\ UNCHANGED <<fs, created, prev>>

\* generateCommitTree, lines 188-190: build the text and hand it to the
\* renderer.
TreeBuild(p) ==
  /\ proc[p].opPc = "tree_build"
  /\ LET treeData == buildTree(proc[p].currentCommitHash)
     IN IF treeData.ok
          THEN Set(p, [proc[p] EXCEPT !.out = Append(@, [tree |-> treeData.tree]),
                                      !.opPc = "done"])
          ELSE Fail(p)
  /\ UNCHANGED <<fs, created, prev>>

\* The process ends when both chains have finished, or at once when the
\* command's promise was rejected (the unhandled rejection ends the process
\* with whatever init had done so far).
Exit(p, concurrent) ==
  /\ Running(p)
  /\ \/ proc[p].opPc = "done" /\ proc[p].initPc = "done"
     \/ proc[p].opPc \in {"failed", "killed"}
  /\ prev' = IF ~concurrent /\ proc[p].opPc = "done"
                 /\ proc[p].cmd \in {"add", "commit"}
               THEN [cmd |-> proc[p].cmd, proc |-> proc[p]]
               ELSE prev
  /\ Set(p, Idle)
  /\ UNCHANGED <<fs, created>>

\* Mutant of Interrupt: an add that is interrupted after it wrote its blob
\* rolls back by deleting the blob.
InterruptRollback(p) ==
  /\ Running(p)
  /\ proc[p].opPc \notin {"done", "failed", "killed"}
  /\ Set(p, [proc[p] EXCEPT !.opPc = "killed", !.initPc = "killed",
                            !.at = proc[p].opPc])
  /\ objects' = IF proc[p].opPc \in {"usa_read", "usa_write"}
                  THEN [d \in DOMAIN objects \ {proc[p].fileHash} |-> objects[d]]
                  ELSE objects
  /\ UNCHANGED <<objectsDir, headPath, indexPath, created, prev>>

\* The process is interrupted (killed, or an fs call of it fails for a
\* cause outside the program) before its next step: nothing is rolled back,
\* and neither chain goes on.
Interrupt(p) ==
  /\ Running(p)
  /\ proc[p].opPc \notin {"done", "failed", "killed"}
  /\ Set(p, [proc[p] EXCEPT !.opPc = "killed", !.initPc = "killed",
                            !.at = proc[p].opPc])
  /\ UNCHANGED <<fs, created, prev>>

Next ==
  \E p \in Procs :
    \/ \E cmd \in Commands : Start(p, cmd, FALSE)
    \/ InitMkdir(p)
    \/ InitWriteHead(p)
    \/ InitWriteIndex(p)
    \/ AddRead(p)
    \/ AddWrite(p)
    \/ UpdateStagingAreaRead(p)
    \/ UpdateStagingAreaWrite(p)
    \/ CommitRead(p)
    \/ CommitHead(p)
    \/ CommitWrite(p)
    \/ CommitSetHead(p)
    \/ CommitClear(p)
    \/ LogHead(p)
    \/ LogLoop(p)
    \/ ShowGet(p)
    \/ ShowLoop(p)
    \/ TreeHead(p)
    \/ TreeBuild(p)
    \/ Exit(p, FALSE)

Spec == Init /\ [][Next]_vars

\* The sequential commands without show, which reads only and so adds no
\* state of the repository, and with fewer adds, which do not lengthen the
\* chain of commits.  A running command goes on: the event loop runs
\* a pending callback of log and tree.
FairNext ==
  \E p \in Procs :
    \/ \E cmd \in Commands \ {"show"} :
         /\ cmd = "add" => Staged(Len(created)) < FairAdds
         /\ Start(p, cmd, FALSE)
    \/ InitMkdir(p)
    \/ InitWriteHead(p)
    \/ InitWriteIndex(p)
    \/ AddRead(p)
    \/ AddWrite(p)
    \/ UpdateStagingAreaRead(p)
    \/ UpdateStagingAreaWrite(p)
    \/ CommitRead(p)
    \/ CommitHead(p)
    \/ CommitWrite(p)
    \/ CommitSetHead(p)
    \/ CommitClear(p)
    \/ LogHead(p)
    \/ LogLoop(p)
    \/ TreeHead(p)
    \/ TreeBuild(p)
    \/ Exit(p, FALSE)

FairSpec ==
  /\ Init /\ [][FairNext]_vars
  /\ \A p \in Procs :
       WF_vars(LogHead(p) \/ LogLoop(p) \/ TreeHead(p) \/ TreeBuild(p))

\* Invocations of add and commit that run at the same time on one
\* repository, any of which may be interrupted.
ConcNext ==
  \E p \in Procs :
    \/ \E cmd \in {"add", "commit"} : Start(p, cmd, TRUE)
    \/ InitMkdir(p)
    \/ InitWriteHead(p)
    \/ InitWriteIndex(p)
    \/ AddRead(p)
    \/ AddWrite(p)
    \/ UpdateStagingAreaRead(p)
    \/ UpdateStagingAreaWrite(p)
    \/ CommitRead(p)
    \/ CommitHead(p)
    \/ CommitWrite(p)
    \/ CommitSetHead(p)
    \/ CommitClear(p)
    \/ Interrupt(p)
    \/ Exit(p, TRUE)

ConcSpec == Init /\ [][ConcNext]_vars

\* ---------------------------------------------------------------- claims
\* Views of the repository used by the properties.
IndexEntries(ix) == IF ix = ENOENT THEN <<>> ELSE JSONparse(ix)
IsCommit(content) == ~JSONthrows(content)
CommitAt(d) == JSONparse(objects[d])
Done(p, cmd) == proc[p].cmd = cmd /\ proc[p].opPc = "done"
Reverse(s) == [k \in 1..Len(s) |-> s[Len(s) + 1 - k]]
StagedEntry(r) == [path |-> r.path, hash |-> hashObject(r.fileData)]

\* C1: when a commit has completed, the record stored under its digest lists
\* exactly the index entries present when the commit was invoked, in the
\* same order (an empty index gives files = []), and the index is empty; an
\* add that completes after a commit leaves an index holding only its entry.
StagingIsolation ==
  \A p \in Procs :
    /\ Done(p, "commit") =>
         /\ proc[p].commitHash \in DOMAIN objects
         /\ CommitAt(proc[p].commitHash).files
              = IndexEntries(proc[p].pre.indexPath)
         /\ indexPath = JSONstringify(<<>>)
    /\ Done(p, "add") /\ prev.cmd = "commit" =>
         indexPath = JSONstringify(<<StagedEntry(proc[p])>>)

\* C1 witness: an add has completed right after a commit that took two
\* staged entries.
StagingIsolationWitness ==
  \E p \in Procs :
    /\ Done(p, "add") /\ prev.cmd = "commit"
    /\ Len(prev.proc.index) = 2
    /\ Len(IndexEntries(indexPath)) = 1

\* C2: when a commit has completed, HEAD is the digest of the stored record
\* and the record's parent is the value HEAD held before the commit (the
\* empty HEAD that init writes when there was none); the parent of the i-th
\* commit record is the digest of the (i-1)-th.
CommitLinkage ==
  /\ \A p \in Procs :
       Done(p, "commit") =>
         /\ headPath = proc[p].commitHash
         /\ proc[p].commitHash \in DOMAIN objects
         /\ objects[proc[p].commitHash] = JSONstringify(proc[p].commitData)
         /\ CommitAt(proc[p].commitHash).parent
              = IF proc[p].pre.headPath = ENOENT THEN EmptyString
                ELSE proc[p].pre.headPath
  /\ \A k \in 2..Len(created) :
       /\ created[k] \in DOMAIN objects
       /\ CommitAt(created[k]).parent = created[k - 1]

\* C2 witness: the second commit of a series has completed, with staged
\* entries in both.
CommitLinkageWitness ==
  \E p \in Procs :
    /\ Done(p, "commit") /\ Len(created) = 2
    /\ headPath = created[2]
    /\ CommitAt(created[2]).parent = created[1]
    /\ Len(CommitAt(created[1]).files) >= 1

\* C3: when log has completed, the commits it printed are exactly the commit
\* records ever created, each once, newest first, starting at HEAD.
HistoryCompleteness ==
  \A p \in Procs :
    Done(p, "log") =>
      /\ [k \in 1..Len(proc[p].out) |-> proc[p].out[k].commit] = Reverse(created)
      /\ Len(created) > 0 => proc[p].out[1].commit = headPath

\* C3 witness: log has listed two commits, the later one first.
HistoryCompletenessWitness ==
  \E p \in Procs :
    /\ Done(p, "log") /\ Len(proc[p].out) = 2 /\ Len(created) = 2
    /\ proc[p].out[1].commit = created[2]
    /\ proc[p].out[2].commit = created[1]

\* C4 as stated: every stored commit whose parent is not null has a parent
\* that is the digest of a stored commit record.
ParentLinkageNull ==
  \A d \in DOMAIN objects :
    IsCommit(objects[d]) /\ CommitAt(d).parent # null =>
      /\ getCommitData(CommitAt(d).parent) # null
      /\ IsCommit(getCommitData(CommitAt(d).parent))

\* C4 amended: every stored commit whose parent is not the empty string has
\* a parent that is the digest of a stored commit record; the commit with
\* the empty-string parent is the root (the first one created), and no
\* stored commit has the parent null.
ParentLinkage ==
  \A d \in DOMAIN objects :
    IsCommit(objects[d]) =>
      /\ CommitAt(d).parent # null
      /\ CommitAt(d).parent = EmptyString => d = created[1]
      /\ CommitAt(d).parent # EmptyString =>
           /\ getCommitData(CommitAt(d).parent) # null
           /\ IsCommit(getCommitData(CommitAt(d).parent))

\* C4 witness: a root commit and a descendant of it are stored.
ParentLinkageWitness ==
  /\ Len(created) = 2
  /\ \A k \in 1..2 : created[k] \in DOMAIN objects
  /\ CommitAt(created[1]).parent = EmptyString
  /\ CommitAt(created[2]).parent = created[1]

\* C5 as stated: while no commit has been made the head read by commit is
\* null, and the first commit is stored with parent null.
FirstParentNull ==
  /\ \A p \in Procs :
       proc[p].opPc = "commit_write" /\ created = <<>> =>
         proc[p].parentCommit = null
  /\ Len(created) >= 1 => CommitAt(created[1]).parent = null

\* C5 amended: while no commit has been made, the head a command reads is
\* null only if HEAD did not exist when the command was invoked, and it is
\* the empty string whenever HEAD existed (freshly initialised); the first
\* commit is stored with parent equal to the empty string, never null.
FirstParentEmpty ==
  /\ \A p \in Procs :
       created = <<>> =>
         /\ proc[p].opPc = "commit_write" =>
              proc[p].parentCommit = EmptyString
         /\ proc[p].opPc = "log_loop" =>
              /\ proc[p].currentCommitHash \in {null, EmptyString}
              /\ proc[p].currentCommitHash = null =>
                   proc[p].pre.headPath = ENOENT
              /\ proc[p].pre.headPath # ENOENT =>
                   proc[p].currentCommitHash = EmptyString
  /\ Len(created) >= 1 =>
       /\ created[1] \in DOMAIN objects
       /\ CommitAt(created[1]).parent = EmptyString

\* C5 witness: the first commit of a repository that init had created
\* before has completed.
FirstParentEmptyWitness ==
  \E p \in Procs :
    /\ Done(p, "commit") /\ Len(created) = 1
    /\ proc[p].pre.headPath = EmptyString
    /\ proc[p].parentCommit = EmptyString

\* C6: when an add has completed whose content the previous add stored for
\* the first time, it printed the same digest, the store holds exactly one
\* object more than before the first of the two adds, that content is held
\* by exactly one object, and the index has the two entries appended (also
\* when path and digest are the same).
DedupIdempotence ==
  \A p \in Procs :
    ( /\ Done(p, "add") /\ prev.cmd = "add"
      /\ prev.proc.fileData = proc[p].fileData
      /\ prev.proc.fileHash \notin DOMAIN prev.proc.pre.objects ) =>
        /\ proc[p].out[1] = prev.proc.out[1]
        /\ proc[p].fileHash = prev.proc.fileHash
        /\ Cardinality(DOMAIN objects)
             = Cardinality(DOMAIN prev.proc.pre.objects) + 1
        /\ Cardinality({d \in DOMAIN objects : objects[d] = proc[p].fileData}) = 1
        /\ IndexEntries(indexPath)
             = IndexEntries(prev.proc.pre.indexPath)
                 \o <<StagedEntry(prev.proc), StagedEntry(proc[p])>>

\* C6 witness: the same content was added twice under the same path.
DedupIdempotenceSamePath ==
  \E p \in Procs :
    /\ Done(p, "add") /\ prev.cmd = "add"
    /\ prev.proc.fileData = proc[p].fileData
    /\ prev.proc.fileHash \notin DOMAIN prev.proc.pre.objects
    /\ prev.proc.path = proc[p].path
    /\ Len(IndexEntries(indexPath)) = 2
    /\ IndexEntries(indexPath)[1] = IndexEntries(indexPath)[2]

\* C7: every object is stored under the digest of its content, and a step
\* never removes an object nor changes the content of one.
ContentAddressing ==
  /\ [](\A d \in DOMAIN objects : hashObject(objects[d]) = d)
  /\ [][\A d \in DOMAIN objects :
          d \in DOMAIN objects' /\ objects'[d] = objects[d]]_vars

\* C7 witness: blobs and commits are stored, and a content was written a
\* second time.
ContentAddressingWitness ==
  /\ Cardinality(DOMAIN objects) >= 4
  /\ \E p \in Procs :
       /\ proc[p].opPc = "usa_read"
       /\ proc[p].fileHash \in DOMAIN proc[p].pre.objects

\* The repository exists: init has nothing left to create.
Initialized(s) == s.objectsDir /\ s.headPath # ENOENT /\ s.indexPath # ENOENT

\* C8: a step of init on an existing repository changes neither the objects
\* nor HEAD nor the index, and an init command on an existing repository
\* ends with all three as they were and reports that it was initialised.
InitIdempotent ==
  /\ [](\A p \in Procs :
          Done(p, "init") /\ proc[p].initPc = "done"
            /\ Initialized(proc[p].pre) =>
              Snapshot = proc[p].pre /\ proc[p].already)
  /\ [][\A p \in Procs :
          ( /\ Running(p) /\ proc'[p].cmd = proc[p].cmd
            /\ proc'[p].initPc # proc[p].initPc
            /\ Initialized(Snapshot) ) => UNCHANGED fs]_vars

\* C8 witness: init has run on a repository with a commit at HEAD and a
\* staged entry.
InitIdempotentWitness ==
  \E p \in Procs :
    /\ Done(p, "init") /\ proc[p].initPc = "done"
    /\ Len(created) >= 1 /\ headPath = created[Len(created)]
    /\ Len(IndexEntries(indexPath)) >= 1
    /\ Initialized(proc[p].pre)

\* The positions in files whose entry has this path.
Hits(files, filepath) == {j \in 1..Len(files) : files[j].path = filepath}

ShowNotFound ==
  /\ [](\A p \in Procs :
          proc[p].cmd = "show"
            /\ proc[p].commitHash \notin DOMAIN proc[p].pre.objects =>
              /\ proc[p].opPc \in {"show_get", "done"}
              /\ proc[p].opPc = "done" =>
                   proc[p].out = <<Msg("Commit not found")>>)
  /\ [][\A p \in Procs :
          ( /\ proc[p].cmd = "show" /\ proc'[p].cmd = "show"
            /\ proc[p].commitHash \notin DOMAIN objects
            /\ proc'[p].opPc # proc[p].opPc ) => UNCHANGED fs]_vars

\* C10 witness: show has ended on an unknown digest in a repository that
\* holds commits.
ShowNotFoundWitness ==
  \E p \in Procs :
    /\ Done(p, "show") /\ proc[p].commitHash = UnknownHash
    /\ Len(created) >= 1 /\ Len(IndexEntries(indexPath)) >= 1
    /\ proc[p].out = <<Msg("Commit not found")>>

\* What a reader of HEAD gets: an absent HEAD and an empty one both stand
\* for "no commit yet".
HeadOf(s) == IF s.headPath = ENOENT THEN EmptyString ELSE s.headPath

\* C11: an add whose path cannot be read fails at that read, the failing
\* step changes nothing on disk, and while the failed invocation lasts no
\* object has been written, no entry has been appended to the index and
\* HEAD names what it named; on an existing repository objects, HEAD and
\* index are exactly as before the invocation.
AddUnreadable ==
  /\ [](\A p \in Procs :
          proc[p].cmd = "add" /\ proc[p].readErr =>
            /\ proc[p].opPc = "failed" /\ proc[p].at = "add_read"
            /\ proc[p].out = <<>>
            /\ objects = proc[p].pre.objects
            /\ IndexEntries(indexPath) = IndexEntries(proc[p].pre.indexPath)
            /\ HeadOf(Snapshot) = HeadOf(proc[p].pre)
            /\ Initialized(proc[p].pre) => Snapshot = proc[p].pre)
  /\ [][\A p \in Procs :
          proc[p].opPc = "add_read" /\ proc'[p].opPc # "add_read"
            /\ proc'[p].readErr => UNCHANGED fs]_vars

\* C11 witness: an add has failed on an unreadable path in a repository
\* with a commit at HEAD and a staged entry.
AddUnreadableWitness ==
  \E p \in Procs :
    /\ proc[p].cmd = "add" /\ proc[p].readErr /\ proc[p].opPc = "failed"
    /\ Len(created) >= 1 /\ headPath = created[Len(created)]
    /\ Len(IndexEntries(indexPath)) >= 1

\* The parent chain from a digest: the commit, its parent, and so on while
\* the parent is a non-empty digest.
RECURSIVE Chain(_)
Chain(h) ==
  IF ~Truthy(h) \/ h \notin DOMAIN objects THEN <<>>
  ELSE <<h>> \o Chain(CommitAt(h).parent)

\* C12: when tree has built the text for a HEAD chain of n >= 1 commits, the
\* text is n lines, each ended by a newline, and nothing else: line k is
\* the (k-1)-th ancestor of HEAD indented by k-1 levels.  (The code leaves
\* the indentation of the last level after the last newline.)
TreeNesting ==
  \A p \in Procs :
    Done(p, "tree") /\ Truthy(proc[p].currentCommitHash) =>
      LET chain == Chain(proc[p].currentCommitHash)
          n == Len(chain)
          tree == proc[p].out[1].tree
      IN /\ n >= 1
         /\ Len(tree) = n + 1
         /\ \A k \in 1..n : tree[k] = Line(k - 1, chain[k])
         /\ tree[n + 1] = Line(0, EmptyString)

\* C13: in every state reached by sequential commands the parent chain from
\* HEAD is finite, without repetition, and ends at the commit without
\* parent; log and tree never fail, each of them started comes to its end,
\* and with no commit log has listed nothing and tree has reported "No
\* commits found".
LogTreeTerminate ==
  /\ [](LET chain == Chain(HeadOf(Snapshot))
        IN /\ \A j, k \in 1..Len(chain) : chain[j] = chain[k] => j = k
           /\ Truthy(HeadOf(Snapshot)) =>
                /\ Len(chain) >= 1
                /\ ~Truthy(CommitAt(chain[Len(chain)]).parent))
  /\ [](\A p \in Procs :
          proc[p].cmd \in {"log", "tree"} =>
            /\ proc[p].opPc # "failed"
            /\ (proc[p].opPc = "done" /\ ~Truthy(HeadOf(proc[p].pre))) =>
                 proc[p].out = IF proc[p].cmd = "log" THEN <<>>
                               ELSE <<Msg("No commits found")>>)
  /\ \A p \in Procs :
       (proc[p].cmd \in {"log", "tree"})
         ~> (proc[p].cmd \in {"log", "tree"} /\ proc[p].opPc = "done")

\* C13 witness: tree has ended with its text on a chain of two commits.
LogTreeTerminateWitness ==
  \E p \in Procs :
    /\ Done(p, "tree") /\ Len(Chain(headPath)) = 2
    /\ Len(proc[p].out) = 1 /\ "tree" \in DOMAIN proc[p].out[1]

\* C16 as stated: the index is already persisted as empty in the state in
\* which commit writes its record and in the state in which it advances
\* HEAD.
CommitOrderClearFirst ==
  \A p \in Procs :
    proc[p].cmd = "commit" /\ proc[p].opPc \in {"commit_write", "commit_sethead"}
      => indexPath = JSONstringify(<<>>)

\* C16 amended: commit reads the index, then HEAD as the parent, then
\* stores the record, then advances HEAD, and persists the empty index
\* last: the index still holds the entries read while the record is written
\* and while HEAD is advanced, HEAD is still the parent while the record is
\* written, and the record is stored before HEAD names it.
CommitOrder ==
  \A p \in Procs :
    proc[p].cmd = "commit" =>
      /\ proc[p].opPc \in {"commit_head", "commit_write", "commit_sethead",
                           "commit_clear"} =>
           indexPath = JSONstringify(proc[p].index)
      /\ proc[p].opPc = "commit_write" =>
           /\ getCurrentHead = proc[p].parentCommit
           /\ proc[p].commitHash \notin DOMAIN objects
      /\ proc[p].opPc = "commit_sethead" =>
           /\ getCurrentHead = proc[p].parentCommit
           /\ proc[p].commitHash \in DOMAIN objects
      /\ proc[p].opPc = "commit_clear" =>
           /\ headPath = proc[p].commitHash
           /\ proc[p].commitHash \in DOMAIN objects
      /\ proc[p].opPc = "done" =>
           /\ headPath = proc[p].commitHash
           /\ indexPath = JSONstringify(<<>>)

\* C16 witness: a commit of staged entries has advanced HEAD and the index
\* still holds the entries.
CommitOrderWitness ==
  \E p \in Procs :
    /\ proc[p].cmd = "commit" /\ proc[p].opPc = "commit_clear"
    /\ Len(proc[p].index) >= 1
    /\ indexPath = JSONstringify(proc[p].index)
    /\ headPath = proc[p].commitHash

\* The program counters at which a command's method has not yet read or
\* written the objects directory, HEAD or the index (add first reads the
\* working-tree file).
BeforeRepoAccess(cmd) ==
  IF cmd = "add" THEN {"add_read", "add_write"} ELSE {FirstPc(cmd)}

\* C18: within one invocation the constructor's init has completed before
\* the command's method first reads or writes the objects directory, HEAD
\* or the index, and add and commit fail only when the file to add cannot
\* be read, never because the objects directory or the index is missing.
\* (The constructor does not await init, so the code breaks this.)
InitBeforeOperation ==
  \A p \in Procs :
    proc[p].cmd \in {"add", "commit", "log", "show", "tree"} =>
      /\ proc[p].initPc # "done" =>
           proc[p].opPc \in BeforeRepoAccess(proc[p].cmd)
      /\ (proc[p].cmd \in {"add", "commit"} /\ proc[p].opPc = "failed") =>
           proc[p].readErr

ReadOnly == {"log", "show", "tree"}

\* C20 as stated: when log, show or tree has ended, in a directory without
\* repository too, the stored objects, HEAD and the index are exactly as
\* they were before the invocation.
ReadOnlyExact ==
  \A p \in Procs :
    proc[p].cmd \in ReadOnly /\ proc[p].opPc = "done" /\ proc[p].initPc = "done"
      => /\ objects = proc[p].pre.objects
         /\ headPath = proc[p].pre.headPath
         /\ indexPath = proc[p].pre.indexPath

\* C20 amended: no step of the method of log, show or tree changes anything
\* on disk, and on an existing repository the objects, HEAD and the index
\* are, all through the invocation, exactly as before it; in a directory
\* without repository the invocation's own init creates an empty HEAD and an
\* empty index, and the objects, the commit HEAD names and the staged
\* entries are still as before.
ReadOnlyCommands ==
  /\ [](\A p \in Procs :
          proc[p].cmd \in ReadOnly =>
            /\ objects = proc[p].pre.objects
            /\ HeadOf(Snapshot) = HeadOf(proc[p].pre)
            /\ IndexEntries(indexPath) = IndexEntries(proc[p].pre.indexPath)
            /\ Initialized(proc[p].pre) => Snapshot = proc[p].pre)
  /\ [][\A p \in Procs :
          ( /\ proc[p].cmd \in ReadOnly /\ proc'[p].cmd = proc[p].cmd
            /\ proc'[p].opPc # proc[p].opPc ) => UNCHANGED fs]_vars

\* C20 witness: show of the first of two commits has ended with its report
\* on a repository with a staged entry.
ReadOnlyCommandsWitness ==
  \E p \in Procs :
    /\ Done(p, "show") /\ Len(proc[p].out) >= 1
    /\ Initialized(proc[p].pre)
    /\ Len(created) = 2 /\ proc[p].commitHash = created[1]
    /\ Len(IndexEntries(indexPath)) >= 1

\* The index an add had read when it pushed its entry.
ReadIndex(r) == SubSeq(r.index, 1, Len(r.index) - 1)

\* C14: when two add invocations have both completed after reading the same
\* index, the index on disk is the list one of them wrote: the index they
\* read with one new entry, the other's entry being lost.
LostUpdate ==
  \A p, q \in Procs :
    ( /\ p # q /\ Done(p, "add") /\ Done(q, "add")
      /\ ReadIndex(proc[p]) = ReadIndex(proc[q]) ) =>
        /\ indexPath \in {JSONstringify(proc[p].index),
                          JSONstringify(proc[q].index)}
        /\ Len(IndexEntries(indexPath)) = Len(ReadIndex(proc[p])) + 1

\* C14 witness: two adds of different contents have raced on an index with
\* one entry, both have completed, and the entry of one of them is not in
\* the index.
LostUpdateWitness ==
  \E p, q \in Procs :
    /\ p # q /\ Done(p, "add") /\ Done(q, "add")
    /\ created = <<>>
    /\ ReadIndex(proc[p]) = ReadIndex(proc[q])
    /\ Len(ReadIndex(proc[p])) = 1
    /\ proc[p].out = <<[printed |-> proc[p].fileHash], Msg("Added")>>
    /\ proc[q].out = <<[printed |-> proc[q].fileHash], Msg("Added")>>
    /\ indexPath = JSONstringify(proc[q].index)
    /\ \A k \in 1..Len(IndexEntries(indexPath)) :
         IndexEntries(indexPath)[k] # StagedEntry(proc[p])

\* C15: in every state, those left by failed or interrupted commits and by
\* interleaved commits too, HEAD is absent, empty, or the digest of a commit
\* record in the object store; and the steps of a commit up to and with the
\* writing of its record leave HEAD and the index as they are and add
\* nothing but that record, so that a commit that ends before it advances
\* HEAD leaves only an orphan object.
HeadValidity ==
  /\ [](\/ headPath \in {ENOENT, EmptyString}
        \/ /\ objectsDir /\ headPath \in DOMAIN objects
           /\ IsCommit(objects[headPath]))
  /\ [][\A p \in Procs :
          ( /\ proc[p].cmd = "commit" /\ proc'[p].cmd = "commit"
            /\ proc[p].opPc \in {"commit_read", "commit_head", "commit_write",
                                 "commit_sethead"}
            /\ proc'[p].opPc # proc[p].opPc
            /\ proc'[p].opPc \in {"commit_head", "commit_write",
                                  "commit_sethead", "failed", "killed"} ) =>
              /\ headPath' = headPath /\ indexPath' = indexPath
              /\ \/ objects' = objects
                 \/ /\ proc[p].opPc = "commit_write"
                    /\ objects' = PutObject(objects, proc[p].commitHash,
                                            JSONstringify(proc[p].commitData))]_vars

\* C15 witness: a commit was interrupted after it had stored its record and
\* before it advanced HEAD, and HEAD is still the commit it read as parent.
HeadValidityWitness ==
  \E p \in Procs :
    /\ proc[p].cmd = "commit" /\ proc[p].opPc = "killed"
    /\ proc[p].at = "commit_sethead"
    /\ proc[p].commitHash \in DOMAIN objects
    /\ Truthy(headPath) /\ headPath = proc[p].parentCommit
    /\ headPath # proc[p].commitHash

\* The entry names a blob in the object store: the file under its digest
\* exists and holds the content with that digest.
Resolves(entry) ==
  /\ objectsDir /\ entry.hash \in DOMAIN objects
  /\ hashObject(objects[entry.hash]) = entry.hash

\* C17: in every state, those left by adds and commits that failed or were
\* interrupted part-way too, every entry of the index and every entry of
\* the files of every stored commit names a blob in the object store, and
\* show of any stored commit resolves every file of it without failing.
ReferentialIntegrity ==
  /\ \A k \in 1..Len(IndexEntries(indexPath)) :
       Resolves(IndexEntries(indexPath)[k])
  /\ \A d \in DOMAIN objects :
       IsCommit(objects[d]) =>
         \A k \in 1..Len(CommitAt(d).files) :
           /\ Resolves(CommitAt(d).files[k])
           /\ ~Threw(ShowFile(CommitAt(d), CommitAt(d).files[k]))

\* C17 witness: an add was interrupted between writing its blob and
\* writing the index, a commit with a file is stored and the index holds an
\* entry.
ReferentialIntegrityWitness ==
  /\ \E p \in Procs :
       /\ proc[p].cmd = "add" /\ proc[p].opPc = "killed"
       /\ proc[p].at \in {"usa_read", "usa_write"}
       /\ proc[p].fileHash \in DOMAIN objects
  /\ \E d \in DOMAIN objects :
       IsCommit(objects[d]) /\ Len(CommitAt(d).files) >= 1
  /\ Len(IndexEntries(indexPath)) >= 1

\* An add and a commit that started together on one index and have both
\* completed.
Raced(p, q) ==
  /\ p # q /\ Done(p, "add") /\ Done(q, "commit")
  /\ proc[p].pre.indexPath = proc[q].pre.indexPath
  /\ proc[p].pre.indexPath # ENOENT

\* C19 as stated: when an add has raced a commit and both have completed,
\* the entry of the add is either in the commit's files, the index being
\* empty, or alone in the index, the commit's files being the entries
\* staged before.
AddRacesCommitExact ==
  \A p, q \in Procs :
    Raced(p, q) =>
      LET B == IndexEntries(proc[p].pre.indexPath)
          e == StagedEntry(proc[p])
          F == CommitAt(proc[q].commitHash).files
          I == IndexEntries(indexPath)
      IN \/ I = <<>> /\ F = Append(B, e)
         \/ I = <<e>> /\ F = B

\* C19 amended: when an add has raced a commit and both have completed, one
\* of four outcomes holds: the two of the claim, or the entry of the add is
\* lost (in neither the commit's files nor the index), or the entries of the
\* commit's files reappear in the index before the entry of the add.
AddRacesCommit ==
  \A p, q \in Procs :
    Raced(p, q) =>
      LET B == IndexEntries(proc[p].pre.indexPath)
          e == StagedEntry(proc[p])
          F == CommitAt(proc[q].commitHash).files
          I == IndexEntries(indexPath)
      IN \/ I = <<>> /\ F = Append(B, e)
         \/ I = <<e>> /\ F = B
         \/ I = <<>> /\ F = B
         \/ I = Append(B, e) /\ F = B

\* C19 witness: an add has raced a commit of one staged entry, and the
\* committed entry is back in the index, before the entry of the add.
AddRacesCommitWitness ==
  \E p, q \in Procs :
    /\ Raced(p, q)
    /\ Len(IndexEntries(proc[p].pre.indexPath)) = 1
    /\ CommitAt(proc[q].commitHash).files = IndexEntries(proc[p].pre.indexPath)
    /\ IndexEntries(indexPath) =
         Append(IndexEntries(proc[p].pre.indexPath), StagedEntry(proc[p]))
====
